---- MODULE Spec2Model ----
(***************************************************************************)
(* PapayaFresh API server (server.js): the dashboard aggregation, the user *)
(* deletion endpoint and the three helper functions, over a model of the   *)
(* Firestore document store and the identity provider.                     *)
(*                                                                         *)
(* Time is counted in whole seconds (the source counts milliseconds; all   *)
(* instants of the model are whole seconds, so the divisions agree).       *)
(***************************************************************************)
EXTENDS Integers, Sequences, FiniteSets, TLC

VARIABLES
    userDocs,     \* ids of the documents of collection users
    shelf,        \* shelf[u]: ids of the documents of users/u/shelf
    history,      \* history[u]: ids of the documents of users/u/history
    authUsers,    \* ids of the accounts of the identity provider
    inflight,     \* document deletions issued and not yet settled
    del,          \* the DELETE /api/users/delete/:userId handler invocation
    dash,         \* dash[r]: a GET /api/dashboard/stats handler invocation
    fnIn,         \* argument of a helper function call
    fnOut         \* <<>> before the call, <<result>> after it

vars == <<userDocs, shelf, history, authUsers, inflight, del, dash, fnIn, fnOut>>

-----------------------------------------------------------------------------
(* Bounds of the model *)

NumUsers == 2      \* user ids 1..NumUsers
MaxShelf == 2      \* shelf documents per user
MaxHistory == 2    \* history documents per user
MaxScans == 2      \* length of the lists handed to the helpers alone

Users == 1..NumUsers
DashReqs == {1, 2}

-----------------------------------------------------------------------------
(* Instants, Dates and numbers of the JavaScript run-time *)

Minute == 60
Hour == 60 * Minute
Day == 24 * Hour
Week == 7 * Day

\* new Date() at the time of the request
Now == 6 * Week

\* a JavaScript number that may be NaN, or the hole of a sparse array
Num(n) == [tag |-> "num", v |-> n]
NaN == [tag |-> "NaN", v |-> 0]
Hole == [tag |-> "hole", v |-> 0]

\* a Date object: valid with its instant, or Invalid Date
DateAt(t) == [valid |-> TRUE, t |-> t]
InvalidDate == [valid |-> FALSE, t |-> 0]

(* A timestamp field of a document:                                        *)
(*   "ts"    a Firestore Timestamp (has toDate and seconds)                *)
(*   "str"   a string that Date parses, "badstr" one that it does not,     *)
(*   "empty" the empty string                                              *)
(*   "secs"  a plain object { seconds: t }                                 *)
(*   "num"   a number (epoch time)                                         *)
(*   "none"  null or missing                                               *)
(*   "badts" an object whose toDate property is there and throws when      *)
(*           called                                                        *)
Stamp(k, t) == [k |-> k, t |-> t]
NoStamp == Stamp("none", 0)

\* JavaScript truthiness of a timestamp field
Truthy(x) ==
    /\ x.k \notin {"none", "empty"}
    /\ ~(x.k = "num" /\ x.t = 0)

\* a || b
OrElse(a, b) == IF Truthy(a) THEN a ELSE b

\* x.toDate is defined
HasToDate(x) == x.k = "ts"

\* new Date(x), for x without toDate (the handlers modelled here never hand
\* a Firestore Timestamp to the Date constructor)
NewDate(x) ==
    CASE x.k \in {"str", "num"} -> DateAt(x.t)
      [] x.k = "none" -> DateAt(0)
      [] OTHER -> InvalidDate

\* now - date
DateDiff(now, date) == IF date.valid THEN Num(now - date.t) ELSE NaN

\* Math.floor(x / d), d > 0
FloorDiv(x, d) == IF x.tag = "num" THEN Num(x.v \div d) ELSE NaN

\* x < n
LessThan(x, n) == x.tag = "num" /\ x.v < n

\* Math.max(1, count); Array.prototype.map skips holes
Max1(count) ==
    CASE count.tag = "num" -> Num(IF count.v < 1 THEN 1 ELSE count.v)
      [] count.tag = "NaN" -> NaN
      [] OTHER -> Hole

-----------------------------------------------------------------------------
(* Strings as sequences of characters *)

UpperCase == <<"A","B","C","D","E","F","G","H","I","J","K","L","M",
               "N","O","P","Q","R","S","T","U","V","W","X","Y","Z">>
LowerCase == <<"a","b","c","d","e","f","g","h","i","j","k","l","m",
               "n","o","p","q","r","s","t","u","v","w","x","y","z">>

LowerChar(c) ==
    IF \E i \in 1..26 : UpperCase[i] = c
    THEN LowerCase[CHOOSE i \in 1..26 : UpperCase[i] = c]
    ELSE c

\* String.prototype.toLowerCase
toLowerCase(s) == [i \in 1..Len(s) |-> LowerChar(s[i])]

\* String.prototype.includes
includes(s, sub) ==
    \E i \in 0..(Len(s) - Len(sub)) : SubSeq(s, i + 1, i + Len(sub)) = sub

-----------------------------------------------------------------------------
(* Helper functions *)

\* variant of Classify: the overripe rule is tried first
ClassifyMutOrder(freshness) ==
    IF includes(freshness, <<"o","v","e","r","r","i","p","e">>)
       \/ freshness = <<"r","o","t","t","e","n">>
       \/ includes(freshness, <<"l","a","t","e">>)
    THEN "overripe"
    ELSE IF includes(freshness, <<"u","n","r","i","p","e">>)
            \/ freshness = <<"g","r","e","e","n">>
            \/ includes(freshness, <<"e","a","r","l","y">>)
    THEN "unripe"
    ELSE "ripe"

\* the if / else if / else of calculateFreshnessDistribution
Classify(freshness) ==
    IF includes(freshness, <<"u","n","r","i","p","e">>)
       \/ freshness = <<"g","r","e","e","n">>
       \/ includes(freshness, <<"e","a","r","l","y">>)
    THEN "unripe"
    ELSE IF includes(freshness, <<"o","v","e","r","r","i","p","e">>)
            \/ freshness = <<"r","o","t","t","e","n">>
            \/ includes(freshness, <<"l","a","t","e">>)
    THEN "overripe"
    ELSE "ripe"

RECURSIVE FreshnessLoop(_, _)
FreshnessLoop(scans, distribution) ==
    IF scans = <<>> THEN distribution
    ELSE LET bucket == Classify(toLowerCase(Head(scans).freshness))
         IN FreshnessLoop(Tail(scans),
                          [distribution EXCEPT ![bucket] = @ + 1])

calculateFreshnessDistribution(scans) ==
    LET distribution ==
            FreshnessLoop(scans, [unripe |-> 0, ripe |-> 0, overripe |-> 0])
    IN IF distribution.unripe = 0 /\ distribution.ripe = 0
          /\ distribution.overripe = 0
       THEN [unripe |-> 1, ripe |-> 1, overripe |-> 1]
       ELSE distribution

\* weeklyData[k]++ on a JavaScript array (k >= 0, counted from 0)
Increment(weeklyData, k) ==
    IF k < Len(weeklyData)
    THEN [weeklyData EXCEPT ![k + 1] =
              IF @.tag = "num" THEN Num(@.v + 1) ELSE NaN]
    ELSE weeklyData \o [i \in 1..(k - Len(weeklyData)) |-> Hole] \o <<NaN>>

\* variant of WeeklyStep: diffWeeks < 3
WeeklyStepMutOffByOne(weeklyData, scan, now) ==
    LET scanDate == OrElse(scan.scannedDate,
                           OrElse(scan.addedAt, scan.harvestedDate))
    IN IF Truthy(scanDate)
       THEN LET date == IF HasToDate(scanDate) THEN DateAt(scanDate.t)
                                               ELSE NewDate(scanDate)
                diffWeeks == FloorDiv(DateDiff(now, date), Week)
            IN IF LessThan(diffWeeks, 3)
               THEN Increment(weeklyData, 3 - diffWeeks.v)
               ELSE weeklyData
       ELSE weeklyData

\* the body of scans.forEach in calculateWeeklyScans
WeeklyStep(weeklyData, scan, now) ==
    LET scanDate == OrElse(scan.scannedDate,
                           OrElse(scan.addedAt, scan.harvestedDate))
    IN IF Truthy(scanDate)
       THEN LET date == IF HasToDate(scanDate) THEN DateAt(scanDate.t)
                                               ELSE NewDate(scanDate)
                diffWeeks == FloorDiv(DateDiff(now, date), Week)
            IN IF LessThan(diffWeeks, 4)
               THEN Increment(weeklyData, 3 - diffWeeks.v)
               ELSE weeklyData
       ELSE weeklyData

RECURSIVE WeeklyLoop(_, _, _)
WeeklyLoop(scans, weeklyData, now) ==
    IF scans = <<>> THEN weeklyData
    ELSE WeeklyLoop(Tail(scans), WeeklyStep(weeklyData, Head(scans), now), now)

calculateWeeklyScans(scans, now) ==
    IF Len(scans) = 0 THEN <<Num(2), Num(5), Num(8), Num(12)>>
    ELSE LET weeklyData ==
                 WeeklyLoop(scans, <<Num(0), Num(0), Num(0), Num(0)>>, now)
         IN [i \in 1..Len(weeklyData) |-> Max1(weeklyData[i])]

Label(text, n) == [label |-> text, n |-> n]

\* the try block of formatTimeAgo ended by an exception
Thrown == [valid |-> FALSE, t |-> -1]

formatTimeAgo(timestamp, now) ==
    IF ~Truthy(timestamp) THEN Label("Recent", 0)
    ELSE LET activityTime ==
                 CASE HasToDate(timestamp) -> DateAt(timestamp.t)
                   [] timestamp.k = "badts" -> Thrown
                   [] timestamp.k \in {"str", "badstr"} -> NewDate(timestamp)
                   [] timestamp.k = "secs" /\ timestamp.t # 0 ->
                          DateAt(timestamp.t)
                   [] OTHER -> NewDate(timestamp)
         IN IF activityTime = Thrown THEN Label("Recent", 0)
            ELSE IF ~activityTime.valid THEN Label("Recent", 0)
            ELSE LET diffMinutes == (now - activityTime.t) \div Minute
                 IN CASE diffMinutes < 1 -> Label("Just now", 0)
                      [] diffMinutes >= 1 /\ diffMinutes < 60 ->
                             Label("mins ago", diffMinutes)
                      [] diffMinutes >= 60 /\ diffMinutes < 1440 ->
                             Label("hr ago", diffMinutes \div 60)
                      [] OTHER -> Label("days ago", diffMinutes \div 1440)

-----------------------------------------------------------------------------
(* The document store: the fields of the documents.  The content of a     *)
(* document is fixed by its owner and id; which documents exist is state. *)

FreshnessLabels ==
    << <<"G","r","e","e","n">>,
       <<"R","O","T","T","E","N">>,
       <<>>,
       <<"E","a","r","l","y"," ","o","v","e","r","r","i","p","e">>,
       <<"R","i","p","e">> >>

ScannedDates ==
    << Stamp("ts", Now - 8 * Day),
       Stamp("ts", Now - 30),
       NoStamp,
       Stamp("str", Now - 45 * Minute),
       Stamp("ts", Now + 2 * Hour) >>

AddedDates ==
    << NoStamp, NoStamp, Stamp("ts", Now - 15 * Day), NoStamp, NoStamp >>

ArchivedDates ==
    << Stamp("ts", Now - 3 * Hour),
       NoStamp,
       Stamp("secs", Now - 5 * Day) >>

Pick(pool, k) == pool[(k % Len(pool)) + 1]

\* doc.data() of document i of users/u/shelf
ShelfItem(u, i) ==
    LET k == 2 * (u - 1) + i - 1
    IN [name |-> IF k % 3 = 2 THEN "" ELSE "Papaya",
        freshness |-> Pick(FreshnessLabels, k),
        scannedDate |-> Pick(ScannedDates, k),
        addedAt |-> Pick(AddedDates, k),
        harvestedDate |-> Stamp("str", Now - 22 * Day)]

\* doc.data() of document i of users/u/history
HistoryItem(u, i) ==
    LET k == 2 * (u - 1) + i - 1
    IN [name |-> IF k % 2 = 1 THEN "" ELSE "Papaya",
        scannedDate |-> IF k % 2 = 0 THEN NoStamp
                        ELSE Stamp("str", Now - 2 * Day),
        archivedAt |-> Pick(ArchivedDates, k)]

\* userDoc.data().email; "" when the field is missing
Email(u) == IF u % 2 = 1 THEN "user@example.com" ELSE ""

\* the documents of a snapshot, in document id order
RECURSIVE SnapshotDocs(_)
SnapshotDocs(ids) ==
    IF ids = {} THEN <<>>
    ELSE LET m == CHOOSE x \in ids : \A y \in ids : x <= y
         IN <<m>> \o SnapshotDocs(ids \ {m})

StoreTypeOK ==
    /\ userDocs \subseteq Users
    /\ authUsers \subseteq Users
    /\ shelf \in [Users -> SUBSET (1..MaxShelf)]
    /\ history \in [Users -> SUBSET (1..MaxHistory)]

-----------------------------------------------------------------------------
(* DELETE /api/users/delete/:userId *)

Ref(coll, u, i) == [coll |-> coll, user |-> u, id |-> i]

DelIdle ==
    [pc |-> "idle", userId |-> 0, userDoc |-> "none", email |-> "",
     shelfSnapshot |-> {}, historySnapshot |-> {}, rejected |-> FALSE,
     authError |-> FALSE, status |-> 0, success |-> FALSE, error |-> ""]

\* res.status(code).json({ success: false, error }); userDoc is "missing"
\* or "exists" once the snapshot of the user document is there
DelFail(d, code, message) ==
    [d EXCEPT !.pc = "done", !.status = code, !.success = FALSE,
              !.error = message]

\* the request arrives; db.collection('users').doc(userId).get() is issued
DelRequest(u) ==
    /\ del.pc = "idle"
    /\ del' = [del EXCEPT !.pc = "getUser", !.userId = u]
    /\ UNCHANGED <<userDocs, shelf, history, authUsers, inflight, dash,
                   fnIn, fnOut>>

\* variant of DelGetUser: no return when the user document is missing
DelGetUserMutNoReturn(ok) ==
    /\ del.pc = "getUser"
    /\ del' = IF ~ok THEN DelFail(del, 500, "get failed")
              ELSE [del EXCEPT !.pc = "getShelf",
                               !.userDoc = IF del.userId \in userDocs
                                           THEN "exists" ELSE "missing",
                               !.email = Email(del.userId)]
    /\ UNCHANGED <<userDocs, shelf, history, authUsers, inflight, dash,
                   fnIn, fnOut>>

\* the user document is back (or the read failed): 404 when it does not
\* exist, else the shelf query is issued
DelGetUser(ok) ==
    /\ del.pc = "getUser"
    /\ del' = IF ~ok THEN DelFail(del, 500, "get failed")
              ELSE IF del.userId \notin userDocs
              THEN [DelFail(del, 404, "User not found")
                       EXCEPT !.userDoc = "missing"]
              ELSE [del EXCEPT !.pc = "getShelf", !.userDoc = "exists",
                               !.email = Email(del.userId)]
    /\ UNCHANGED <<userDocs, shelf, history, authUsers, inflight, dash,
                   fnIn, fnOut>>

\* the shelf snapshot is back: one delete per document, awaited together
DelGetShelf(ok) ==
    /\ del.pc = "getShelf"
    /\ IF ok
       THEN /\ del' = [del EXCEPT !.pc = "awaitShelf",
                                  !.shelfSnapshot = shelf[del.userId]]
            /\ inflight' = inflight \cup
                   {Ref("shelf", del.userId, i) : i \in shelf[del.userId]}
       ELSE /\ del' = DelFail(del, 500, "get failed")
            /\ UNCHANGED inflight
    /\ UNCHANGED <<userDocs, shelf, history, authUsers, dash, fnIn, fnOut>>

\* doc.ref.delete() settles: the document is gone, or the promise rejects
\* and the document stays
DocDeleteSettles(ref, ok) ==
    /\ ref \in inflight
    /\ inflight' = inflight \ {ref}
    /\ IF ok
       THEN /\ shelf' = IF ref.coll = "shelf"
                        THEN [shelf EXCEPT ![ref.user] = @ \ {ref.id}]
                        ELSE shelf
            /\ history' = IF ref.coll = "history"
                          THEN [history EXCEPT ![ref.user] = @ \ {ref.id}]
                          ELSE history
            /\ UNCHANGED del
       ELSE /\ del' = [del EXCEPT !.rejected = TRUE]
            /\ UNCHANGED <<shelf, history>>
    /\ UNCHANGED <<userDocs, authUsers, dash, fnIn, fnOut>>

\* Promise.all(shelfDeletePromises) settles: rejected by the first failed
\* delete, fulfilled when every delete succeeded; then the history query
DelShelfDeleted ==
    /\ del.pc = "awaitShelf"
    /\ IF del.rejected
       THEN del' = DelFail(del, 500, "delete failed")
       ELSE /\ \A ref \in inflight : ref.coll # "shelf"
            /\ del' = [del EXCEPT !.pc = "getHistory"]
    /\ UNCHANGED <<userDocs, shelf, history, authUsers, inflight, dash,
                   fnIn, fnOut>>

\* the history snapshot is back: one delete per document, awaited together
DelGetHistory(ok) ==
    /\ del.pc = "getHistory"
    /\ IF ok
       THEN /\ del' = [del EXCEPT !.pc = "awaitHistory",
                                  !.historySnapshot = history[del.userId]]
            /\ inflight' = inflight \cup
                   {Ref("history", del.userId, i) : i \in history[del.userId]}
       ELSE /\ del' = DelFail(del, 500, "get failed")
            /\ UNCHANGED inflight
    /\ UNCHANGED <<userDocs, shelf, history, authUsers, dash, fnIn, fnOut>>

\* variant of DelHistoryDeleted: the history deletes are not awaited
DelHistoryDeletedMutNoAwait ==
    /\ del.pc = "awaitHistory"
    /\ IF del.rejected
       THEN del' = DelFail(del, 500, "delete failed")
       ELSE del' = [del EXCEPT !.pc = "deleteUser"]
    /\ UNCHANGED <<userDocs, shelf, history, authUsers, inflight, dash,
                   fnIn, fnOut>>

\* Promise.all(historyDeletePromises) settles; then the delete of the user
\* document is issued
DelHistoryDeleted ==
    /\ del.pc = "awaitHistory"
    /\ IF del.rejected
       THEN del' = DelFail(del, 500, "delete failed")
       ELSE /\ \A ref \in inflight : ref.coll # "history"
            /\ del' = [del EXCEPT !.pc = "deleteUser"]
    /\ UNCHANGED <<userDocs, shelf, history, authUsers, inflight, dash,
                   fnIn, fnOut>>

\* db.collection('users').doc(userId).delete() settles; then
\* auth.deleteUser(userId) is issued
DelUserDoc(ok) ==
    /\ del.pc = "deleteUser"
    /\ IF ok
       THEN /\ userDocs' = userDocs \ {del.userId}
            /\ del' = [del EXCEPT !.pc = "deleteAuth"]
       ELSE /\ del' = DelFail(del, 500, "delete failed")
            /\ UNCHANGED userDocs
    /\ UNCHANGED <<shelf, history, authUsers, inflight, dash, fnIn, fnOut>>

\* variant of DelAuth: the error of auth.deleteUser reaches the outer catch
DelAuthMutFatal(ok) ==
    /\ del.pc = "deleteAuth"
    /\ ok => del.userId \in authUsers
    /\ authUsers' = IF ok THEN authUsers \ {del.userId} ELSE authUsers
    /\ del' = IF ok
              THEN [del EXCEPT !.pc = "done", !.status = 200,
                               !.success = TRUE]
              ELSE [DelFail(del, 500, "auth failed")
                       EXCEPT !.authError = TRUE]
    /\ UNCHANGED <<userDocs, shelf, history, inflight, dash, fnIn, fnOut>>

\* auth.deleteUser(userId) settles (it rejects when there is no such
\* account); its error is logged; res.json({ success: true, ... })
DelAuth(ok) ==
    /\ del.pc = "deleteAuth"
    /\ ok => del.userId \in authUsers
    /\ authUsers' = IF ok THEN authUsers \ {del.userId} ELSE authUsers
    /\ del' = [del EXCEPT !.pc = "done", !.status = 200, !.success = TRUE,
                          !.authError = ~ok]
    /\ UNCHANGED <<userDocs, shelf, history, inflight, dash, fnIn, fnOut>>

-----------------------------------------------------------------------------
(* GET /api/dashboard/stats *)

Unknown == <<"U","n","k","n","o","w","n">>

\* a field || null
OrNull(x) == IF Truthy(x) THEN x ELSE NoStamp

\* userData.email || `User ${userId.substring(0, 8)}`
ActivityUser(u) ==
    IF Email(u) # "" THEN [text |-> Email(u), id |-> 0]
    ELSE [text |-> "User ", id |-> u]

\* scanData of shelf document i of user u
ScanData(u, i) ==
    LET shelfItem == ShelfItem(u, i)
    IN [id |-> i,
        userId |-> u,
        userEmail |-> IF Email(u) # "" THEN Email(u) ELSE "Unknown",
        name |-> IF shelfItem.name # "" THEN shelfItem.name
                 ELSE "Unknown Papaya",
        freshness |-> IF shelfItem.freshness # <<>> THEN shelfItem.freshness
                      ELSE Unknown,
        harvestedDate |-> OrNull(shelfItem.harvestedDate),
        scannedDate |-> OrNull(shelfItem.scannedDate),
        addedAt |-> OrNull(shelfItem.addedAt)]

\* the activity pushed for a shelf document: `Scanned ${name} - ${freshness}`
ScanActivity(scanData, now) ==
    [user |-> ActivityUser(scanData.userId),
     action |-> [verb |-> "Scanned ", name |-> scanData.name,
                 freshness |-> scanData.freshness],
     time |-> formatTimeAgo(OrElse(scanData.scannedDate, scanData.addedAt),
                            now),
     type |-> "scan"]

\* the activity pushed for a history document: `History: ${name}`
HistoryActivity(u, i, now) ==
    LET historyItem == HistoryItem(u, i)
    IN [user |-> ActivityUser(u),
        action |-> [verb |-> "History: ",
                    name |-> IF historyItem.name # "" THEN historyItem.name
                             ELSE "Activity",
                    freshness |-> <<>>],
        time |-> formatTimeAgo(OrElse(historyItem.scannedDate,
                                      historyItem.archivedAt), now),
        type |-> "history"]

\* a.timestamp: the activity objects have no such property
ActivityTimestamp(a) == Stamp("undefined", 0)

\* (a, b) => new Date(b.timestamp) - new Date(a.timestamp)
CompareActivities(a, b) ==
    LET db == NewDate(ActivityTimestamp(b))
        da == NewDate(ActivityTimestamp(a))
    IN IF db.valid /\ da.valid THEN Num(db.t - da.t) ELSE NaN

\* Array.prototype.sort: a NaN of the comparator counts as +0; stable
RECURSIVE InsertSorted(_, _)
InsertSorted(s, x) ==
    IF s = <<>> THEN <<x>>
    ELSE LET last == s[Len(s)]
             v == CompareActivities(last, x)
         IN IF v.tag = "num" /\ v.v > 0
            THEN InsertSorted(SubSeq(s, 1, Len(s) - 1), x) \o <<last>>
            ELSE s \o <<x>>

RECURSIVE SortActivities(_)
SortActivities(s) ==
    IF s = <<>> THEN <<>>
    ELSE InsertSorted(SortActivities(SubSeq(s, 1, Len(s) - 1)), s[Len(s)])

\* .slice(0, 6)
Slice6(s) == SubSeq(s, 1, IF Len(s) < 6 THEN Len(s) ELSE 6)

DashIdle ==
    [pc |-> "idle", listed |-> FALSE, usersSnapshot |-> <<>>, idx |-> 0,
     shelfSnapshot |-> <<>>,
     totalScans |-> 0, totalShelfItems |-> 0, totalHistoryItems |-> 0,
     userActivities |-> <<>>, allScans |-> <<>>, logged |-> <<>>,
     status |-> 0, body |-> <<>>]

\* the fallback answer of the outer catch
FallbackResponse ==
    [success |-> FALSE,
     error |-> "get failed",
     totalUsers |-> 0,
     newUsers |-> 0,
     totalScans |-> 0,
     papayasOnShelf |-> 0,
     ripenessDistribution |-> [unripe |-> 1, ripe |-> 1, overripe |-> 1],
     weeklyScans |-> <<Num(2), Num(5), Num(8), Num(12)>>,
     recentActivities |->
         << [user |-> "System", action |-> "Error loading data",
             time |-> "Just now"] >>]

\* (totalScans / totalUsers).toFixed(1), in tenths
ToFixed1(totalScans, totalUsers) ==
    (20 * totalScans + totalUsers) \div (2 * totalUsers)

\* lines 148-200: the statistics and res.json(responseData)
Respond(d) ==
    LET totalUsers == Len(d.usersSnapshot)
        sorted == SortActivities(d.userActivities)
        recentActivities == Slice6(sorted)
        responseData ==
            [totalUsers |-> totalUsers,
             newUsers |-> IF totalUsers \div 5 < 1 THEN 1
                          ELSE totalUsers \div 5,
             totalScans |-> d.totalScans,
             papayasOnShelf |-> d.totalShelfItems,
             ripenessDistribution |->
                 calculateFreshnessDistribution(d.allScans),
             weeklyScans |-> calculateWeeklyScans(d.allScans, Now),
             recentActivities |->
                 IF Len(recentActivities) > 0 THEN recentActivities
                 ELSE << [user |-> [text |-> "No activity yet", id |-> 0],
                          action |-> [verb |-> "Waiting for user scans",
                                      name |-> "", freshness |-> <<>>],
                          time |-> Label("Just now", 0),
                          type |-> "none"] >>,
             userStats |->
                 [averageScansPerUser |->
                      IF totalUsers > 0
                      THEN ToFixed1(d.totalScans, totalUsers) ELSE 0,
                  activeUsers |-> Len(d.userActivities),
                  totalShelfItems |-> d.totalShelfItems,
                  totalHistoryItems |-> d.totalHistoryItems],
             debug |->
                 [usersFound |-> totalUsers,
                  shelfItemsFound |-> d.totalShelfItems,
                  historyItemsFound |-> d.totalHistoryItems,
                  userIds |-> d.usersSnapshot]]
    IN [d EXCEPT !.pc = "done", !.userActivities = sorted, !.status = 200,
                 !.body = responseData]

\* the for loop moves to the next user, or ends
NextUser(d) ==
    IF d.idx + 1 > Len(d.usersSnapshot)
    THEN Respond([d EXCEPT !.idx = @ + 1])
    ELSE [d EXCEPT !.idx = @ + 1, !.pc = "getShelf"]

\* the request arrives; db.collection('users').get() is issued
DashRequest(r) ==
    /\ dash[r].pc = "idle"
    /\ dash' = [dash EXCEPT ![r].pc = "listUsers"]
    /\ UNCHANGED <<userDocs, shelf, history, authUsers, inflight, del,
                   fnIn, fnOut>>

\* variant of DashListUsers: a failed listing counts as no users
DashListUsersMutSwallow(r, ok) ==
    /\ dash[r].pc = "listUsers"
    /\ dash' = [dash EXCEPT ![r] =
           IF ok
           THEN NextUser([@ EXCEPT !.listed = TRUE,
                                   !.usersSnapshot = SnapshotDocs(userDocs)])
           ELSE Respond(@)]
    /\ UNCHANGED <<userDocs, shelf, history, authUsers, inflight, del,
                   fnIn, fnOut>>

\* the users snapshot is back (listed: usersSnapshot is bound), or the
\* listing failed (outer catch)
DashListUsers(r, ok) ==
    /\ dash[r].pc = "listUsers"
    /\ dash' = [dash EXCEPT ![r] =
           IF ok
           THEN NextUser([@ EXCEPT !.listed = TRUE,
                                   !.usersSnapshot = SnapshotDocs(userDocs)])
           ELSE [@ EXCEPT !.pc = "done", !.status = 500,
                          !.body = FallbackResponse]]
    /\ UNCHANGED <<userDocs, shelf, history, authUsers, inflight, del,
                   fnIn, fnOut>>

\* the shelf snapshot of the current user is back, or the fetch failed
\* (inner catch: logged, next user)
DashGetShelf(r, ok) ==
    /\ dash[r].pc = "getShelf"
    /\ LET d == dash[r]
           userId == d.usersSnapshot[d.idx]
           shelfSnapshot == SnapshotDocs(shelf[userId])
       IN dash' = [dash EXCEPT ![r] =
              IF ok
              THEN [d EXCEPT !.pc = "getHistory",
                             !.shelfSnapshot = shelfSnapshot,
                             !.totalShelfItems = @ + Len(shelfSnapshot)]
              ELSE NextUser([d EXCEPT !.logged = Append(@, userId)])]
    /\ UNCHANGED <<userDocs, shelf, history, authUsers, inflight, del,
                   fnIn, fnOut>>

\* variant of DashGetHistory: totalScans is one variable of the module,
\* shared by all invocations
DashGetHistoryMutShared(r, ok) ==
    /\ dash[r].pc = "getHistory"
    /\ LET d == dash[r]
           userId == d.usersSnapshot[d.idx]
           historySnapshot == SnapshotDocs(history[userId])
           userShelfCount == Len(d.shelfSnapshot)
           userHistoryCount == Len(historySnapshot)
           scans == [k \in 1..userShelfCount |->
                         ScanData(userId, d.shelfSnapshot[k])]
           mine == IF ok
                   THEN NextUser(
                     [d EXCEPT
                        !.totalHistoryItems = @ + userHistoryCount,
                        !.allScans = @ \o scans,
                        !.userActivities = @
                            \o [k \in 1..userShelfCount |->
                                    ScanActivity(scans[k], Now)]
                            \o [k \in 1..userHistoryCount |->
                                    HistoryActivity(userId,
                                                    historySnapshot[k], Now)],
                        !.totalScans = @ + userShelfCount + userHistoryCount])
                   ELSE NextUser([d EXCEPT !.logged = Append(@, userId)])
       IN dash' = [q \in DashReqs |->
                      IF q = r THEN mine
                      ELSE [dash[q] EXCEPT !.totalScans = mine.totalScans]]
    /\ UNCHANGED <<userDocs, shelf, history, authUsers, inflight, del,
                   fnIn, fnOut>>

\* the history snapshot of the current user is back, or the fetch failed
\* (inner catch: logged, next user)
DashGetHistory(r, ok) ==
    /\ dash[r].pc = "getHistory"
    /\ LET d == dash[r]
           userId == d.usersSnapshot[d.idx]
           historySnapshot == SnapshotDocs(history[userId])
           userShelfCount == Len(d.shelfSnapshot)
           userHistoryCount == Len(historySnapshot)
           scans == [k \in 1..userShelfCount |->
                         ScanData(userId, d.shelfSnapshot[k])]
       IN dash' = [dash EXCEPT ![r] =
              IF ok
              THEN NextUser(
                     [d EXCEPT
                        !.totalHistoryItems = @ + userHistoryCount,
                        !.allScans = @ \o scans,
                        !.userActivities = @
                            \o [k \in 1..userShelfCount |->
                                    ScanActivity(scans[k], Now)]
                            \o [k \in 1..userHistoryCount |->
                                    HistoryActivity(userId,
                                                    historySnapshot[k], Now)],
                        !.totalScans = @ + userShelfCount + userHistoryCount])
              ELSE NextUser([d EXCEPT !.logged = Append(@, userId)])]
    /\ UNCHANGED <<userDocs, shelf, history, authUsers, inflight, del,
                   fnIn, fnOut>>

\* the store when the request arrives: users 1..n exist, each with its own
\* number of shelf and of history documents
InitDash ==
    /\ \E n \in 0..NumUsers : userDocs = 1..n
    /\ authUsers = userDocs
    /\ shelf \in [Users -> {1..n : n \in 0..MaxShelf}]
    /\ history \in [Users -> {1..n : n \in 0..MaxHistory}]
    /\ \A u \in Users \ userDocs : shelf[u] = {} /\ history[u] = {}
    /\ inflight = {}
    /\ del = DelIdle
    /\ dash = [r \in DashReqs |-> DashIdle]
    /\ fnIn = <<>>
    /\ fnOut = <<>>

NextDash ==
    \/ DashRequest(1)
    \/ \E ok \in BOOLEAN : DashListUsers(1, ok)
    \/ \E ok \in BOOLEAN : DashGetShelf(1, ok)
    \/ \E ok \in BOOLEAN : DashGetHistory(1, ok)

SpecDash == InitDash /\ [][NextDash]_vars

\* the store while several dashboard requests are served: users 1..n
\* exist, each with no or with all of its shelf and history documents
InitConcurrent ==
    /\ \E n \in 0..NumUsers : userDocs = 1..n
    /\ authUsers = userDocs
    /\ shelf \in [Users -> {{}, 1..MaxShelf}]
    /\ history \in [Users -> {{}, 1..MaxHistory}]
    /\ \A u \in Users \ userDocs : shelf[u] = {} /\ history[u] = {}
    /\ inflight = {}
    /\ del = DelIdle
    /\ dash = [r \in DashReqs |-> DashIdle]
    /\ fnIn = <<>>
    /\ fnOut = <<>>

\* the continuations of the requests run one at a time, in any order
NextConcurrent ==
    \/ \E r \in DashReqs : DashRequest(r)
    \/ \E r \in DashReqs, ok \in BOOLEAN : DashListUsers(r, ok)
    \/ \E r \in DashReqs, ok \in BOOLEAN : DashGetShelf(r, ok)
    \/ \E r \in DashReqs, ok \in BOOLEAN : DashGetHistory(r, ok)

SpecConcurrent == InitConcurrent /\ [][NextConcurrent]_vars

\* the store when the request arrives: every user has the same number of
\* shelf and of history documents, whether or not its user document exists
InitDelete ==
    /\ userDocs \in SUBSET Users
    /\ authUsers \in {{}, Users}
    /\ \E n \in 0..MaxShelf : shelf = [u \in Users |-> 1..n]
    /\ \E n \in 0..MaxHistory : history = [u \in Users |-> 1..n]
    /\ inflight = {}
    /\ del = DelIdle
    /\ dash = [r \in DashReqs |-> DashIdle]
    /\ fnIn = <<>>
    /\ fnOut = <<>>

NextDelete ==
    \/ \E u \in Users : DelRequest(u)
    \/ \E ok \in BOOLEAN : DelGetUser(ok)
    \/ \E ok \in BOOLEAN : DelGetShelf(ok)
    \/ \E ref \in inflight, ok \in BOOLEAN : DocDeleteSettles(ref, ok)
    \/ DelShelfDeleted
    \/ \E ok \in BOOLEAN : DelGetHistory(ok)
    \/ DelHistoryDeleted
    \/ \E ok \in BOOLEAN : DelUserDoc(ok)
    \/ \E ok \in BOOLEAN : DelAuth(ok)

SpecDelete == InitDelete /\ [][NextDelete]_vars

-----------------------------------------------------------------------------
(* The helper functions called alone *)

WeeklyStamps ==
    { NoStamp,
      Stamp("empty", 0),
      Stamp("badstr", 0),
      Stamp("secs", Now - Day),
      Stamp("ts", Now - 1),
      Stamp("ts", Now - Week),
      Stamp("str", Now - 15 * Day),
      Stamp("ts", Now - 4 * Week + 1),
      Stamp("num", Now - 4 * Week),
      Stamp("ts", Now + 1) }

WeeklyScans ==
    [scannedDate : WeeklyStamps,
     addedAt : {NoStamp, Stamp("ts", Now - 8 * Day)},
     harvestedDate : {NoStamp, Stamp("str", Now - 22 * Day)}]

SeqsUpTo(S, n) == UNION {[1..k -> S] : k \in 0..n}

InitWeekly ==
    /\ fnIn \in SeqsUpTo(WeeklyScans, MaxScans)
    /\ fnOut = <<>>
    /\ userDocs = {}
    /\ authUsers = {}
    /\ shelf = [u \in Users |-> {}]
    /\ history = [u \in Users |-> {}]
    /\ inflight = {}
    /\ del = DelIdle
    /\ dash = [r \in DashReqs |-> DashIdle]

\* calculateWeeklyScans(scans) is called
CallWeeklyScans ==
    /\ fnOut = <<>>
    /\ fnOut' = <<calculateWeeklyScans(fnIn, Now)>>
    /\ UNCHANGED <<userDocs, shelf, history, authUsers, inflight, del, dash,
                   fnIn>>

SpecWeekly == InitWeekly /\ [][CallWeeklyScans]_vars

(* freshness labels, each with the bucket that the first-match rule gives  *)
FreshnessCases ==
    << << <<>>, "ripe" >>,
       << <<"G","r","e","e","n">>, "unripe" >>,
       << <<"g","r","e","e","n","i","s","h">>, "ripe" >>,
       << <<"U","N","R","I","P","E">>, "unripe" >>,
       << <<"n","e","a","r","l","y">>, "unripe" >>,
       << <<"R","O","T","T","E","N">>, "overripe" >>,
       << <<"r","o","t","t","e","n","!">>, "ripe" >>,
       << <<"O","v","e","r","r","i","p","e">>, "overripe" >>,
       << <<"p","l","a","t","e">>, "overripe" >>,
       << <<"f","u","l","l","y"," ","r","i","p","e">>, "ripe" >>,
       << <<"L","a","t","e"," ","u","n","r","i","p","e">>, "unripe" >>,
       << <<"E","a","r","l","y"," ","O","v","e","r","r","i","p","e">>,
          "unripe" >> >>

FreshnessScans == {[freshness |-> FreshnessCases[k][1]] : k \in 1..Len(FreshnessCases)}

InitFreshness ==
    /\ fnIn \in SeqsUpTo(FreshnessScans, MaxScans)
    /\ fnOut = <<>>
    /\ userDocs = {}
    /\ authUsers = {}
    /\ shelf = [u \in Users |-> {}]
    /\ history = [u \in Users |-> {}]
    /\ inflight = {}
    /\ del = DelIdle
    /\ dash = [r \in DashReqs |-> DashIdle]

\* calculateFreshnessDistribution(scans) is called
CallFreshnessDistribution ==
    /\ fnOut = <<>>
    /\ fnOut' = <<calculateFreshnessDistribution(fnIn)>>
    /\ UNCHANGED <<userDocs, shelf, history, authUsers, inflight, del, dash,
                   fnIn>>

SpecFreshness == InitFreshness /\ [][CallFreshnessDistribution]_vars

\* instants around the limits of the labels of formatTimeAgo
TimeAgoInstants ==
    { Now + 5, Now, Now - 59, Now - Minute, Now - 61,
      Now - 45 * Minute, Now - Hour + 1, Now - Hour, Now - 3 * Hour,
      Now - Day + 1, Now - Day, Now - 5 * Day, 1, 0 }

TimeAgoStamps ==
    {Stamp(k, t) : k \in {"ts", "str", "secs", "num"}, t \in TimeAgoInstants}
        \cup {NoStamp, Stamp("empty", 0), Stamp("badstr", 0),
              Stamp("badts", 0)}

InitTimeAgo ==
    /\ fnIn \in TimeAgoStamps
    /\ fnOut = <<>>
    /\ userDocs = {}
    /\ authUsers = {}
    /\ shelf = [u \in Users |-> {}]
    /\ history = [u \in Users |-> {}]
    /\ inflight = {}
    /\ del = DelIdle
    /\ dash = [r \in DashReqs |-> DashIdle]

\* formatTimeAgo(timestamp) is called
CallFormatTimeAgo ==
    /\ fnOut = <<>>
    /\ fnOut' = <<formatTimeAgo(fnIn, Now)>>
    /\ UNCHANGED <<userDocs, shelf, history, authUsers, inflight, del, dash,
                   fnIn>>

SpecTimeAgo == InitTimeAgo /\ [][CallFormatTimeAgo]_vars

-----------------------------------------------------------------------------
(* Properties of the user deletion endpoint (SpecDelete) *)

\* every document of the two snapshots the handler read is gone
SnapshotsDeleted ==
    /\ \A i \in del.shelfSnapshot : i \notin shelf[del.userId]
    /\ \A i \in del.historySnapshot : i \notin history[del.userId]

(* C1: the user document of an existing user is deleted only after every  *)
(* shelf and history document the handler read for that user is deleted,  *)
(* also when a deletion fails part-way: in no reachable state is the user *)
(* document gone (which takes both snapshots read) while a document of    *)
(* those snapshots is still there.                                        *)
C1_UserDocDeletedLast ==
    (del.userDoc = "exists" /\ del.userId \notin userDocs)
        => /\ del.pc \in {"deleteAuth", "done"}
           /\ SnapshotsDeleted

C1_Witness ==
    /\ del.userDoc = "exists"
    /\ del.userId \notin userDocs
    /\ Cardinality(del.shelfSnapshot) = MaxShelf
    /\ Cardinality(del.historySnapshot) = MaxHistory

(* C5: when the lookup finds no user document for userId the request      *)
(* answers 404 { success: false, error: 'User not found' } and has issued *)
(* no deletion, and no step taken while the request is about a user       *)
(* without a user document changes a shelf, history or user document or   *)
(* an identity-provider account.                                          *)
C5_NotFoundTouchesNothing ==
    /\ [](del.userDoc = "missing"
            => /\ del.pc = "done"
               /\ del.status = 404
               /\ ~del.success
               /\ del.error = "User not found"
               /\ inflight = {})
    /\ [][(del'.pc # "idle" /\ del'.userDoc # "exists"
           /\ del'.userId \notin userDocs)
            => UNCHANGED <<userDocs, shelf, history, authUsers, inflight>>]_vars

C5_Witness ==
    /\ del.pc = "done"
    /\ del.userDoc = "missing"
    /\ Cardinality(shelf[del.userId]) = MaxShelf
    /\ Cardinality(history[del.userId]) = MaxHistory
    /\ del.userId \in authUsers

(* C8: a request that ends after auth.deleteUser failed answers 200 with  *)
(* success true and leaves neither the user document nor any shelf or     *)
(* history document of the user; a request that saw a document deletion   *)
(* fail answers 500, and the delete of the user document ends the request *)
(* only by failing, with 500.                                             *)
C8_AuthFailureSwallowed ==
    /\ [](del.pc = "done"
            => /\ del.authError
                   => /\ del.status = 200
                      /\ del.success
                      /\ del.userId \notin userDocs
                      /\ shelf[del.userId] = {}
                      /\ history[del.userId] = {}
               /\ del.rejected => (del.status = 500 /\ ~del.success))
    /\ [][(del.pc = "deleteUser" /\ del'.pc = "done")
            => (del'.status = 500 /\ ~del'.success
                /\ del.userId \in userDocs')]_vars

C8_Witness ==
    /\ del.pc = "done"
    /\ del.authError
    /\ del.userId \in authUsers
    /\ Cardinality(del.shelfSnapshot) = MaxShelf
    /\ Cardinality(del.historySnapshot) = MaxHistory

-----------------------------------------------------------------------------
(* Properties of the dashboard endpoint (SpecDash) *)

Range(s) == {s[k] : k \in 1..Len(s)}

RECURSIVE SumSizes(_, _)
SumSizes(us, coll) ==
    IF us = {} THEN 0
    ELSE LET u == CHOOSE x \in us : TRUE
         IN Cardinality(coll[u]) + SumSizes(us \ {u}, coll)

Answered200 == dash[1].pc = "done" /\ dash[1].status = 200

(* C2: in every 200 answer, whichever fetches failed, totalScans is       *)
(* userStats.totalShelfItems + userStats.totalHistoryItems.               *)
C2_TotalScansIsSum ==
    Answered200
        => dash[1].body.totalScans =
               dash[1].body.userStats.totalShelfItems
               + dash[1].body.userStats.totalHistoryItems

(* C3: a user whose shelf or history fetch failed adds zero to every      *)
(* count and no activity, the other users are all processed, and the      *)
(* request answers 200: the counts are the sums over the users whose two  *)
(* fetches succeeded.                                                     *)
C3_FailedUserAddsNothing ==
    (dash[1].pc = "done" /\ dash[1].listed)
        => LET d == dash[1]
               good == Range(d.usersSnapshot) \ Range(d.logged)
               shelfItems == SumSizes(good, shelf)
               historyItems == SumSizes(good, history)
           IN /\ d.status = 200
              /\ d.idx = Len(d.usersSnapshot) + 1
              /\ d.body.totalScans = shelfItems + historyItems
              /\ d.body.papayasOnShelf = shelfItems
              /\ d.body.userStats.totalShelfItems = shelfItems
              /\ d.body.userStats.totalHistoryItems = historyItems
              /\ Len(d.userActivities) = shelfItems + historyItems

\* the least number of minutes that a label of formatTimeAgo stands for
MinutesOf(time) ==
    CASE time.label = "Just now" -> 0
      [] time.label = "mins ago" -> time.n
      [] time.label = "hr ago" -> 60 * time.n
      [] time.label = "days ago" -> 1440 * time.n
      [] OTHER -> 0

Dated(a) == a.time.label # "Recent"

(* C6: recentActivities of a 200 answer holds the 6 most recent of all    *)
(* activities collected (all when fewer than 6), newest first, and never  *)
(* more than 6.                                                           *)
C6_SixMostRecentNewestFirst ==
    (Answered200 /\ dash[1].userActivities # <<>>)
        => LET all == dash[1].userActivities
               recent == dash[1].body.recentActivities
           IN /\ Len(recent) <= 6
              /\ Len(recent) = IF Len(all) < 6 THEN Len(all) ELSE 6
              /\ \A i, j \in 1..Len(recent) :
                     (i < j /\ Dated(recent[i]) /\ Dated(recent[j]))
                         => MinutesOf(recent[i].time)
                                <= MinutesOf(recent[j].time)
              /\ \A i \in 1..Len(recent), j \in (Len(recent) + 1)..Len(all) :
                     (Dated(recent[i]) /\ Dated(all[j]))
                         => MinutesOf(recent[i].time)
                                <= MinutesOf(all[j].time)

(* C7: when the listing of the users collection fails the request answers *)
(* 500 with success false, an error message, zero counts, the placeholder *)
(* distribution and weekly counts and one placeholder activity; a 200     *)
(* answer is given only after the listing succeeded.                      *)
C7_ListingFailureFallback ==
    dash[1].pc = "done"
        => IF dash[1].listed THEN dash[1].status = 200
           ELSE /\ dash[1].status = 500
                /\ dash[1].body.success = FALSE
                /\ dash[1].body.error # ""
                /\ dash[1].body.totalUsers = 0
                /\ dash[1].body.newUsers = 0
                /\ dash[1].body.totalScans = 0
                /\ dash[1].body.papayasOnShelf = 0
                /\ dash[1].body.ripenessDistribution =
                       [unripe |-> 1, ripe |-> 1, overripe |-> 1]
                /\ dash[1].body.weeklyScans =
                       <<Num(2), Num(5), Num(8), Num(12)>>
                /\ Len(dash[1].body.recentActivities) = 1

C7_Witness ==
    /\ dash[1].pc = "done"
    /\ ~dash[1].listed
    /\ Cardinality(userDocs) = NumUsers
    /\ \A u \in userDocs : shelf[u] # {}

-----------------------------------------------------------------------------
(* Properties of the helper functions (SpecWeekly, SpecFreshness) *)

\* the anchor date of a record: the first present of the three fields
Anchor(scan) ==
    IF Truthy(scan.scannedDate) THEN scan.scannedDate
    ELSE IF Truthy(scan.addedAt) THEN scan.addedAt
    ELSE scan.harvestedDate

\* the anchor is there and is a date
Parseable(x) == x.k \in {"ts", "str", "num"}

\* the record has diffWeeks = w
InWeek(scan, w) ==
    /\ Parseable(Anchor(scan))
    /\ w * Week <= Now - Anchor(scan).t
    /\ Now - Anchor(scan).t < (w + 1) * Week

InRange(scan) == \E w \in 0..3 : InWeek(scan, w)

RECURSIVE Keep(_)
Keep(scans) ==
    IF scans = <<>> THEN <<>>
    ELSE IF InRange(Head(scans)) THEN <<Head(scans)>> \o Keep(Tail(scans))
    ELSE Keep(Tail(scans))

(* C4: for a non-empty list, with anchors after now, 4 weeks or more      *)
(* before now or unparseable, calculateWeeklyScans returns exactly 4      *)
(* integers >= 1, and the records with diffWeeks outside [0,4) change     *)
(* none of the four buckets.                                              *)
C4_FourBucketsAtLeastOne ==
    (fnOut # <<>> /\ fnIn # <<>>)
        => LET weeklyScans == fnOut[1]
               kept == WeeklyLoop(Keep(fnIn),
                                  <<Num(0), Num(0), Num(0), Num(0)>>, Now)
           IN /\ Len(weeklyScans) = 4
              /\ \A i \in 1..Len(weeklyScans) :
                     weeklyScans[i].tag = "num" /\ weeklyScans[i].v >= 1
              /\ \A i \in 1..4 : weeklyScans[i] = Max1(kept[i])

AtLeast1(n) == IF n < 1 THEN 1 ELSE n

(* C10: calculateWeeklyScans([]) is [2,5,8,12]; for a non-empty list      *)
(* bucket i (0..3) is max(1, the number of records whose anchor date has  *)
(* diffWeeks = 3 - i).                                                    *)
C10_WeeklyBuckets ==
    fnOut # <<>>
        => IF fnIn = <<>>
           THEN fnOut[1] = <<Num(2), Num(5), Num(8), Num(12)>>
           ELSE \A i \in 0..3 :
                    fnOut[1][i + 1] =
                        Num(AtLeast1(Cardinality(
                            {k \in 1..Len(fnIn) : InWeek(fnIn[k], 3 - i)})))

C10_Witness ==
    /\ fnOut # <<>>
    /\ Len(fnIn) = MaxScans
    /\ \A k \in 1..Len(fnIn) : InWeek(fnIn[k], 1) /\ ~Truthy(fnIn[k].scannedDate)
    /\ fnOut[1][3] = Num(MaxScans)
    /\ fnOut[1][1] = Num(1)

\* the bucket that the first-match rule gives a label of FreshnessCases
Expected(freshness) ==
    LET k == CHOOSE k \in 1..Len(FreshnessCases) :
                 FreshnessCases[k][1] = freshness
    IN FreshnessCases[k][2]

CountOf(bucket) ==
    Cardinality({k \in 1..Len(fnIn) : Expected(fnIn[k].freshness) = bucket})

(* C9: every scan is counted in the bucket of the first rule its          *)
(* lower-cased label matches (unripe before overripe, else ripe, also for *)
(* an empty label); the three counts of a non-empty list sum to its       *)
(* length, and an empty list gives {unripe:1, ripe:1, overripe:1}.        *)
C9_FirstMatchWins ==
    fnOut # <<>>
        => IF fnIn = <<>>
           THEN fnOut[1] = [unripe |-> 1, ripe |-> 1, overripe |-> 1]
           ELSE /\ fnOut[1].unripe = CountOf("unripe")
                /\ fnOut[1].overripe = CountOf("overripe")
                /\ fnOut[1].ripe = CountOf("ripe")
                /\ fnOut[1].unripe + fnOut[1].ripe + fnOut[1].overripe
                       = Len(fnIn)

C9_Witness ==
    /\ fnOut # <<>>
    /\ Len(fnIn) = MaxScans
    /\ \A k \in 1..Len(fnIn) :
           /\ includes(toLowerCase(fnIn[k].freshness), <<"e","a","r","l","y">>)
           /\ includes(toLowerCase(fnIn[k].freshness),
                       <<"o","v","e","r","r","i","p","e">>)
    /\ fnOut[1] = [unripe |-> MaxScans, ripe |-> 0, overripe |-> 0]

-----------------------------------------------------------------------------
(* Properties of formatTimeAgo (SpecTimeAgo) *)

\* the timestamp is absent, or is in none of the accepted representations
\* with a date in it
AbsentOrUnparseable(x) == x.k \in {"none", "empty", "badstr", "badts"}

\* the label for m elapsed whole minutes
LabelOfMinutes(m) ==
    IF m < 1 THEN Label("Just now", 0)
    ELSE IF m < 60 THEN Label("mins ago", m)
    ELSE IF m < 1440 THEN Label("hr ago", m \div 60)
    ELSE Label("days ago", m \div 1440)

(* C11: formatTimeAgo always returns a label: 'Recent' for an absent or   *)
(* unparseable timestamp, else, with m the elapsed whole minutes, 'Just   *)
(* now' (m < 1), 'm mins ago' (m < 60), 'floor(m/60) hr ago' (m < 1440),  *)
(* 'floor(m/1440) days ago', for an object with toDate, a string and an   *)
(* object with a numeric seconds field, seconds = 0 included.             *)
C11_TimeAgoLabels ==
    (fnOut # <<>> /\ fnIn.k # "num")
        => IF AbsentOrUnparseable(fnIn) THEN fnOut[1] = Label("Recent", 0)
           ELSE fnOut[1] = LabelOfMinutes((Now - fnIn.t) \div Minute)

-----------------------------------------------------------------------------
(* Properties of concurrent dashboard requests (SpecConcurrent) *)

\* the answer of request r is the one the handler gives alone on this store
\* when, of the users it logged, the users of shelfFailed lost the shelf
\* fetch and the others the history fetch
AnswerAlone(r, shelfFailed) ==
    LET d == dash[r]
        good == userDocs \ Range(d.logged)
        shelfItems == SumSizes(userDocs \ shelfFailed, shelf)
        historyItems == SumSizes(good, history)
        scans == SumSizes(good, shelf) + historyItems
    IN /\ d.status = 200
       /\ d.body.totalUsers = Cardinality(userDocs)
       /\ d.body.totalScans = scans
       /\ d.body.papayasOnShelf = shelfItems
       /\ d.body.userStats.totalShelfItems = shelfItems
       /\ d.body.userStats.totalHistoryItems = historyItems
       /\ d.body.userStats.activeUsers = scans
       /\ Len(d.body.recentActivities) =
              IF scans = 0 THEN 1 ELSE IF scans < 6 THEN scans ELSE 6

(* C12: whatever the interleaving of the dashboard requests over an       *)
(* unchanging store, the answer of each (totalUsers, totalScans,          *)
(* papayasOnShelf, totalShelfItems, totalHistoryItems, number of          *)
(* activities) is the answer the same request gives when it runs alone    *)
(* with the same outcomes of its fetches.                                 *)
C12_RequestsIndependent ==
    \A r \in DashReqs :
        dash[r].pc = "done"
            => IF dash[r].listed
               THEN \E shelfFailed \in SUBSET Range(dash[r].logged) :
                        AnswerAlone(r, shelfFailed)
               ELSE /\ dash[r].status = 500
                    /\ dash[r].body.totalUsers = 0
                    /\ dash[r].body.totalScans = 0
                    /\ dash[r].body.papayasOnShelf = 0
                    /\ Len(dash[r].body.recentActivities) = 1

\* request 1 has answered from a store with documents while request 2,
\* with another outcome of its fetches, is between two fetches of a user
C12_Witness ==
    /\ dash[1].pc = "done"
    /\ dash[1].status = 200
    /\ dash[1].body.totalScans = NumUsers * (MaxShelf + MaxHistory)
    /\ dash[2].pc = "getHistory"
    /\ dash[2].idx = NumUsers
    /\ dash[2].logged # <<>>
    /\ dash[2].totalShelfItems > 0

====
